---- MODULE Spec2Model ----
(***************************************************************************)
(* Token lifecycle of the YouTube OAuth2 plugin                            *)
(* (yt_dlp_plugins/extractor/youtubeoauth.py): cache lookup, validation,   *)
(* device authorization flow, refresh, persistence, and the request        *)
(* interceptor (_create_request, handle_oauth) that injects the token.     *)
(*                                                                         *)
(* Python dicts are functions from a set of keys to values; None is the    *)
(* distinguished value None below.  The handler is single threaded and     *)
(* blocking; a call is split into steps where it waits, for the answer to  *)
(* a request or in time.sleep, and each step runs the code up to the next  *)
(* wait (or to the return).  The clock moves between calls, during the     *)
(* waits, and between two clock reads of one step.                         *)
(* The process has two extractors (two of the _YouTubeOAuth classes of      *)
(* lines 293-298): TOKEN_DATA and use_oauth2 are the attributes of the one  *)
(* whose method runs or ran last, other holds those of the second, and the  *)
(* cache is shared by both.                                                 *)
(***************************************************************************)
EXTENDS Integers, Sequences, FiniteSets, TLC

(* ------------------------------ bounds -------------------------------- *)
\* the clock stops advancing here
MaxNow == 90
\* authorization_pending answers per initialize_oauth call
MaxPending == 2
\* expired_token restarts (recursive authorize calls) per initialize_oauth call
MaxRestarts == 1

(* --------------------------- program constants ------------------------ *)
\* youtubeoauth.py:99, the "+ 60" of the expiry test
ExpiryMargin == 60

(* ------------------------------ values -------------------------------- *)
None == [k \in {"None"} |-> "None"]

RequiredKeys == {"access_token", "expires", "refresh_token", "token_type"}

\* access tokens the token endpoint issues to a device-code poll
AccessTokens == {"a2"}
RefreshTokens == {"r2"}
\* access tokens the token endpoint issues on a refresh
RefreshedAccessTokens == {"a3"}
TokenTypes == {"Bearer"}
\* expires_in values the server may issue to a device-code poll: below and at
\* the margin
ExpiresIn == {30, 60}
\* expires_in values the server may issue on a refresh
RefreshExpiresIn == {60}
\* poll periods the device-code endpoint may return
Intervals == {30, 60}
\* steps by which the clock advances between calls; 0 only drops the record
\* of the last call
TickSteps == {0, 30}
\* the time that may pass inside a call between two things the call observes:
\* while the answer to a request is awaited, and between the clock read of
\* line 221 and the clock read of line 99.  0: both see the same clock value;
\* 30 stands for any positive amount up to the step of the clock's grid
Elapsed == {0, 30}
\* error codes of the token endpoint
ErrorCodes == {"authorization_pending", "expired_token", "access_denied", "invalid_grant"}
Usernames == {"oauth2", "alice"}

\* bool(v) of Python for None and dicts
Truthy(v) == v # None /\ DOMAIN v # {}

\* the dict d restricted to the keys in S
Restrict(d, S) == [k \in S |-> d[k]]

\* a complete token record
TokenRecord(a, e, r, t) ==
    [access_token |-> a, expires |-> e, refresh_token |-> r, token_type |-> t]

\* what the cache file may hold when the process starts: nothing, an empty
\* dict, records lacking one required key, complete records
InitialRecords ==
    LET full == {TokenRecord("a1", e, "r1", "Bearer") : e \in {0, 60, 90}}
        base == TokenRecord("a1", 90, "r1", "Bearer")
    IN  {None, Restrict(base, {})}
        \cup {Restrict(base, RequiredKeys \ {k}) : k \in RequiredKeys}
        \cup full

\* success answers of the token endpoint to a device-code poll
DeviceTokenResponses ==
    {[access_token |-> a, expires_in |-> e, refresh_token |-> r, token_type |-> t] :
        a \in AccessTokens, e \in ExpiresIn, r \in RefreshTokens, t \in TokenTypes}

\* success answers of the token endpoint to a refresh: refresh_token is optional
RefreshTokenResponses ==
    {[access_token |-> a, expires_in |-> e, refresh_token |-> r, token_type |-> t] :
        a \in RefreshedAccessTokens, e \in RefreshExpiresIn, r \in RefreshTokens,
        t \in TokenTypes}
    \cup {[access_token |-> a, expires_in |-> e, token_type |-> t] :
            a \in RefreshedAccessTokens, e \in RefreshExpiresIn, t \in TokenTypes}

\* a success answer to a device-code poll that lacks refresh_token
IncompleteTokenResponses ==
    {[access_token |-> a, expires_in |-> 60, token_type |-> t] :
        a \in AccessTokens, t \in TokenTypes}

\* a success answer to a refresh that lacks access_token
IncompleteRefreshResponses ==
    {[expires_in |-> 60, token_type |-> t] : t \in TokenTypes}

\* answers of the device-code endpoint, for the n-th session of a call:
\* complete ones, and ones lacking keys authorize subscripts (an error body,
\* no interval, no device_code)
DeviceCodeResponses(n) ==
    LET full(interval) == [device_code |-> n, user_code |-> "CODE",
                           verification_url |-> "https://www.google.com/device",
                           interval |-> interval]
    IN  {full(interval) : interval \in Intervals}
        \cup {[error |-> "invalid_client"],
              [k \in {"device_code", "user_code", "verification_url"} |-> full(30)[k]],
              [k \in {"user_code", "verification_url", "interval"} |-> full(30)[k]]}

ErrorResponses == {[error |-> c] : c \in ErrorCodes}
\* error answers of the token endpoint to a refresh
RefreshErrorResponses == {[error |-> c] : c \in {"invalid_grant", "access_denied"}}

(* --------------------------- pure functions --------------------------- *)
\* traverse_obj(obj, key): the value at key, or a falsy value ("" for None)
traverse_obj(obj, key) == IF key \in DOMAIN obj THEN obj[key] ELSE ""

\* validate_token_data: all(key in token_data for key in (...)); "key in None"
\* raises TypeError
validate_token_data(token_data) ==
    IF token_data = None THEN "TypeError"
    ELSE IF \A key \in RequiredKeys : key \in DOMAIN token_data THEN "True"
    ELSE "False"

\* get_token: the value returned (and left in _TOKEN_DATA)
get_token(mem, stored) == IF ~Truthy(mem) THEN stored ELSE mem

\* initialize_oauth, lines 89-91: a truthy record that fails validation
InvalidCached(token_data) ==
    Truthy(token_data) /\ validate_token_data(token_data) # "True"

\* variants of the expiry test: "<=" for "<", and the margin forgotten
IsExpired_inclusive(token_data, t) == token_data["expires"] <= t + ExpiryMargin
IsExpired_no_margin(token_data, t) == token_data["expires"] < t

\* initialize_oauth, lines 97-100: the expiry test at time t
IsExpired(token_data, t) == token_data["expires"] < t + ExpiryMargin

\* variant of authorize's record: expires_in stored as if it were absolute
authorize_record_relative(token_response, t) ==
    [access_token |-> token_response["access_token"],
     expires |-> token_response["expires_in"],
     refresh_token |-> token_response["refresh_token"],
     token_type |-> token_response["token_type"]]

\* authorize, lines 219-225: the record built from a success answer at time t
authorize_record(token_response, t) ==
    [access_token |-> token_response["access_token"],
     expires |-> t + token_response["expires_in"],
     refresh_token |-> token_response["refresh_token"],
     token_type |-> token_response["token_type"]]

\* variant of refresh's record: .get("refresh_token") without the default
refresh_record_no_default(token_response, refresh_token, t) ==
    [access_token |-> token_response["access_token"],
     expires |-> t + token_response["expires_in"],
     token_type |-> token_response["token_type"],
     refresh_token |-> traverse_obj(token_response, "refresh_token")]

\* variant of refresh's record: refresh_token copied only when the answer has it
refresh_record_partial(token_response, refresh_token, t) ==
    IF "refresh_token" \in DOMAIN token_response
    THEN [access_token |-> token_response["access_token"],
          expires |-> t + token_response["expires_in"],
          token_type |-> token_response["token_type"],
          refresh_token |-> token_response["refresh_token"]]
    ELSE [access_token |-> token_response["access_token"],
          expires |-> t + token_response["expires_in"],
          token_type |-> token_response["token_type"]]

\* refresh_token, lines 154-160: the record built from a success answer
refresh_record(token_response, refresh_token, t) ==
    [access_token |-> token_response["access_token"],
     expires |-> t + token_response["expires_in"],
     token_type |-> token_response["token_type"],
     refresh_token |-> IF "refresh_token" \in DOMAIN token_response
                       THEN token_response["refresh_token"]
                       ELSE refresh_token]

\* variants of the classification of a poll answer: expired_token polled on
\* like authorization_pending; an unknown error code polled on
poll_outcome_no_restart(token_response) ==
    LET error == traverse_obj(token_response, "error")
    IN  IF error # ""
        THEN IF error \in {"authorization_pending", "expired_token"} THEN "sleep"
             ELSE "raise"
        ELSE "return"
poll_outcome_retry_unknown(token_response) ==
    LET error == traverse_obj(token_response, "error")
    IN  IF error # ""
        THEN IF error = "expired_token" THEN "restart" ELSE "sleep"
        ELSE "return"

\* variant: authorization_pending taken as fatal, the loop gives up
poll_outcome_pending_fatal(token_response) ==
    LET error == traverse_obj(token_response, "error")
    IN  IF error # ""
        THEN IF error = "expired_token" THEN "restart" ELSE "raise"
        ELSE "return"

\* authorize, lines 204-218: what the loop does with a poll answer
poll_outcome(token_response) ==
    LET error == traverse_obj(token_response, "error")
    IN  IF error # ""
        THEN IF error = "authorization_pending" THEN "sleep"
             ELSE IF error = "expired_token" THEN "restart"
             ELSE "raise"
        ELSE "return"

\* variant of the refresh error test: only invalid_grant is taken as an error
refresh_failed_invalid_grant_only(token_response) ==
    traverse_obj(token_response, "error") = "invalid_grant"

\* refresh_token, lines 147-152: does the answer send refresh to authorize
refresh_failed(token_response) == traverse_obj(token_response, "error") # ""

\* variants of the sleep: a fixed poll period instead of the server's interval;
\* the 5 s default of the device flow instead of the server's interval
sleep_time_fixed(data) == 30
sleep_time_default(data) == 5

\* time.sleep(response_data["interval"]), lines 188 and 208
sleep_time(data) == data["interval"]

\* the subscripts token_response[...] of lines 155-158 and 220-224 raise
\* KeyError on a missing key
HasKeys(token_response, keys) == keys \subseteq DOMAIN token_response

\* the key the KeyError names: the first of the subscripts, in the order the
\* code evaluates them, that the dict lacks
MissingKey(d, keys) ==
    keys[CHOOSE i \in 1..Len(keys) :
            /\ keys[i] \notin DOMAIN d
            /\ \A j \in 1..(i - 1) : keys[j] \in DOMAIN d]

(* ----------------------- requests and their headers ------------------- *)
\* the headers handle_oauth touches; a built request may carry any of them
HeaderNames == {"X-Goog-PageId", "X-Goog-AuthUser", "Authorization", "X-Origin",
                "X-Youtube-Identity-Token"}
\* the internal marker header of lines 145 and 322-323
Marker == "__youtube_oauth__"

\* a header value is the sequence of the pieces of its string
HeaderValue(name) ==
    IF name = "Authorization" THEN <<"SAPISIDHASH", " ", "h">> ELSE <<"1">>

\* the headers of a request the host built: User-Agent and the names in S
BuiltHeaders(S) == [k \in S \cup {"User-Agent"} |-> HeaderValue(k)]

\* URLs of the requests the extractor creates
Urls == {"https://www.youtube.com/watch", "https://notyoutube.com/watch",
         "https://www.youtube.com:443/watch", "https://unrelated.example.com/"}

NoRequest == [url |-> "", headers |-> <<>>]
Requests == {[url |-> url, headers |-> BuiltHeaders(S)] :
                url \in Urls, S \in SUBSET HeaderNames}
\* the requests created where two extractors are at work: to www.youtube.com
\* with none of the headers and with all of them, to notyoutube.com and to
\* unrelated.example.com with all of them
CommonRequests ==
    {req \in Requests :
        LET S == DOMAIN req.headers \cap HeaderNames
        IN  \/ S = HeaderNames /\ req.url # "https://www.youtube.com:443/watch"
            \/ S = {} /\ req.url = "https://www.youtube.com/watch"}

\* the requests the token lifecycle sends through _download_json: the
\* device-code request of lines 163-180 and the refresh request of lines 133-146
DeviceCodeRequest ==
    [url |-> "https://oauth2.googleapis.com/device/code",
     headers |-> [k \in {"Content-Type", "User-Agent", "Accept",
                         "Accept-Language", "If-Match"} |->
                    CASE k = "Content-Type" -> <<"application/json">>
                      [] k = "User-Agent" -> <<"Mozilla/5.0">>
                      [] k = "Accept" -> <<"application/json">>
                      [] k = "Accept-Language" -> <<"en-US,en;q=0.9">>
                      [] k = "If-Match" -> <<"*">>]]
RefreshRequest ==
    [url |-> "https://www.youtube.com/o/oauth2/token",
     headers |-> [k \in {"Content-Type", Marker} |->
                    IF k = Marker THEN <<"True">> ELSE <<"application/json">>]]

\* urllib.parse.urlparse(url).netloc, written as the pieces of the string with
\* "youtube.com" always a piece of its own
netloc(url) ==
    CASE url = "https://www.youtube.com/watch" -> <<"www.", "youtube.com">>
      [] url = "https://notyoutube.com/watch" -> <<"not", "youtube.com">>
      [] url = "https://www.youtube.com:443/watch" -> <<"www.", "youtube.com", ":443">>
      [] url = "https://unrelated.example.com/" -> <<"unrelated.example.com">>
      [] url = "https://oauth2.googleapis.com/device/code" -> <<"oauth2.googleapis.com">>
      [] url = "https://www.youtube.com/o/oauth2/token" -> <<"www.", "youtube.com">>

\* str.endswith on sequences of pieces
EndsWith(s, suffix) ==
    /\ Len(s) >= Len(suffix)
    /\ SubSeq(s, Len(s) - Len(suffix) + 1, Len(s)) = suffix

\* handle_oauth, line 108: does handle_oauth go on for this URL
handle_applies(url) == EndsWith(netloc(url), <<"youtube.com">>)

\* headers.pop(key, None)
Pop(headers, key) == Restrict(headers, DOMAIN headers \ {key})

\* handle_oauth, line 117: the conflicting-authorization warning is issued
handle_warns(headers) == "Authorization" \in DOMAIN headers

\* variants of handle_oauth's header rewriting: X-Youtube-Identity-Token left
\* in place; X-Origin removed whether or not Authorization was there
handle_headers_keep_identity(headers, token_data) ==
    LET h1 == Pop(Pop(headers, "X-Goog-PageId"), "X-Goog-AuthUser")
        h2 == IF "Authorization" \in DOMAIN h1
              THEN Pop(Pop(h1, "Authorization"), "X-Origin")
              ELSE h1
        authorization_header ==
            <<token_data["token_type"], " ", token_data["access_token"]>>
    IN  [k \in DOMAIN h2 \cup {"Authorization"} |->
            IF k = "Authorization" THEN authorization_header ELSE h2[k]]
handle_headers_pop_origin(headers, token_data) ==
    LET h1 == Pop(Pop(headers, "X-Goog-PageId"), "X-Goog-AuthUser")
        h2 == Pop(Pop(h1, "Authorization"), "X-Origin")
        h3 == Pop(h2, "X-Youtube-Identity-Token")
        authorization_header ==
            <<token_data["token_type"], " ", token_data["access_token"]>>
    IN  [k \in DOMAIN h3 \cup {"Authorization"} |->
            IF k = "Authorization" THEN authorization_header ELSE h3[k]]

\* handle_oauth, lines 113-130: the headers it leaves, given the record
\* initialize_oauth returned
handle_headers(headers, token_data) ==
    LET h1 == Pop(Pop(headers, "X-Goog-PageId"), "X-Goog-AuthUser")
        h2 == IF "Authorization" \in DOMAIN h1
              THEN Pop(Pop(h1, "Authorization"), "X-Origin")
              ELSE h1
        h3 == Pop(h2, "X-Youtube-Identity-Token")
        authorization_header ==
            <<token_data["token_type"], " ", token_data["access_token"]>>
    IN  [k \in DOMAIN h3 \cup {"Authorization"} |->
            IF k = "Authorization" THEN authorization_header ELSE h3[k]]

\* variant of _create_request: the marker header is not looked at
create_request_branch_no_marker(request, flag) ==
    IF flag THEN "handle_oauth" ELSE "pass"

\* variant of _create_request: handle_oauth called whatever _use_oauth2 is
create_request_branch_ungated(request, flag) ==
    IF Marker \in DOMAIN request.headers THEN "marker" ELSE "handle_oauth"

\* _create_request, lines 322-325: which branch a built request takes
create_request_branch(request, flag) ==
    IF Marker \in DOMAIN request.headers THEN "marker"
    ELSE IF flag THEN "handle_oauth"
    ELSE "pass"

\* _create_request on a request of the token lifecycle itself: a request that
\* handle_oauth goes on for calls initialize_oauth again from within
\* initialize_oauth
Reenters(request, flag) ==
    /\ create_request_branch(request, flag) = "handle_oauth"
    /\ handle_applies(request.url)

\* the event left by a request of the token lifecycle: the branch it took and
\* the headers it was sent with
Sent(request, flag) ==
    LET branch == create_request_branch(request, flag)
    IN  [ev |-> "request", url |-> request.url, branch |-> branch,
         headers |-> IF branch = "marker" THEN Pop(request.headers, Marker)
                     ELSE request.headers]

(* ------------------------------- state -------------------------------- *)
VARIABLES
    cache,          \* the cache entry ("youtube-oauth2", "token_data"), or None
    TOKEN_DATA,     \* self._TOKEN_DATA, None while unset
    use_oauth2,     \* self._use_oauth2
    other,          \* _TOKEN_DATA and _use_oauth2 of the second extractor
    now,            \* the clock, seconds, when the program last looked
    pc,             \* "idle", or what the running call waits for: the answer
                    \* to a request, or the end of time.sleep ("sleep")
    op,             \* the operation that is running or ran last
    caller,         \* who called authorize: "initialize_oauth" or "refresh_token"
    refresh_arg,    \* the refresh_token parameter of the running refresh_token call
    response_data,  \* authorize's device-code session, None outside authorize
    depth,          \* recursive authorize calls of the running call
    log,            \* what the running (or last) call did, in order
    result,         \* how the last initialize_oauth call ended
    entry,          \* cache, _TOKEN_DATA and clock when that call was entered
    built,          \* the request as super()._create_request built it, or NoRequest
    request,        \* that request as _create_request leaves it
    rlog,           \* what _create_request and handle_oauth did in that call
    authenticated,  \* what is_authenticated returned last, "" if not called
    vIn,            \* validate_token_data alone: its argument
    vOut            \* validate_token_data alone: its outcome, "" before the call

vars == <<cache, TOKEN_DATA, use_oauth2, other, now, pc, op, caller, refresh_arg,
          response_data, depth, log, result, entry, built, request, rlog,
          authenticated, vIn, vOut>>

\* the attributes of an extractor no method was called on: _TOKEN_DATA is not
\* set (line 76 reads it with getattr), _use_oauth2 is the class's False (297)
NewInstance == [TOKEN_DATA |-> None, use_oauth2 |-> FALSE]

\* error is <<>> or the exception: <<"ExtractorError", raw error code>> of
\* line 216, <<"TransportError">> of the HTTP executor, <<"KeyError", key>> of
\* a subscript
NoResult == [status |-> "none", value |-> None, error |-> <<>>]
Returned(token_data) == [status |-> "ok", value |-> token_data, error |-> <<>>]
Raised(error) == [status |-> "raised", value |-> None, error |-> error]

NoEntry == [cache |-> None, TOKEN_DATA |-> None, now |-> 0]

\* something the call did, at the time t
Event(ev, arg, resp, t) == [ev |-> ev, arg |-> arg, resp |-> resp, at |-> t]

\* the positions in log of the events named ev
Events(ev) == {i \in 1..Len(log) : log[i].ev = ev}
NumEvents(ev) == Cardinality(Events(ev))

Init ==
    /\ cache \in InitialRecords
    /\ TOKEN_DATA = None
    /\ use_oauth2 = FALSE
    /\ other = NewInstance
    /\ now = 0
    /\ pc = "idle"
    /\ op = "none"
    /\ caller = "none"
    /\ refresh_arg = ""
    /\ response_data = None
    /\ depth = 0
    /\ log = <<>>
    /\ result = NoResult
    /\ entry = NoEntry
    /\ built = NoRequest
    /\ request = NoRequest
    /\ rlog = <<>>
    /\ authenticated = ""
    /\ vIn = None
    /\ vOut = ""


(* ------------------------------ fragments ----------------------------- *)
\* the messages of lines 184-186 and 187, as the pieces of the f-strings
Instructions(data) ==
    <<"To give yt-dlp access to your account, go to  ", data["verification_url"],
      "  and enter code  ", data["user_code"]>>
SleepingFor(data) == <<"Sleeping for ", data["interval"]>>

\* variant of store_token: the cache write forgotten
store_token_memory_only(token_data) ==
    /\ TOKEN_DATA' = token_data
    /\ UNCHANGED cache

\* store_token, lines 71-73
store_token(token_data) ==
    /\ cache' = token_data
    /\ TOKEN_DATA' = token_data

\* an event of _create_request or handle_oauth on the request req
RequestEvent(ev, req) ==
    [ev |-> ev, url |-> req.url, branch |-> "handle_oauth", headers |-> req.headers]

\* variant of handle_oauth: the headers are stripped before initialize_oauth
\* is called
RequestAfter_strip_first(req, res) ==
    IF req = NoRequest THEN req
    ELSE IF res.status = "ok"
    THEN [req EXCEPT !.headers = handle_headers(req.headers, res.value)]
    ELSE [req EXCEPT !.headers =
            Restrict(req.headers, DOMAIN req.headers \ HeaderNames)]

\* handle_oauth, lines 111-130: the request it leaves when the
\* initialize_oauth call of line 111 ended as res; an exception of line 111
\* leaves the function before any header is touched
RequestAfter(req, res) ==
    IF req # NoRequest /\ res.status = "ok"
    THEN [req EXCEPT !.headers = handle_headers(req.headers, res.value)]
    ELSE req

\* initialize_oauth returns token_data (line 105); when handle_oauth called
\* it, lines 113-130 follow
Finish(token_data, log1, rlog1) ==
    /\ pc' = "idle"
    /\ result' = Returned(token_data)
    /\ log' = log1
    /\ request' = RequestAfter(built', Returned(token_data))
    /\ rlog' = IF built' # NoRequest /\ handle_warns(built'.headers)
               THEN rlog1 \o <<RequestEvent("warn", built')>>
               ELSE rlog1
    /\ caller' = "none"
    /\ refresh_arg' = ""
    /\ response_data' = None
    /\ depth' = 0

\* an exception leaves authorize / refresh_token / initialize_oauth: nothing
\* on the way catches it
Fail(error, log1, rlog1) ==
    /\ pc' = "idle"
    /\ result' = Raised(error)
    /\ log' = log1
    /\ request' = RequestAfter(built', Raised(error))
    /\ rlog' = rlog1
    /\ caller' = "none"
    /\ refresh_arg' = ""
    /\ response_data' = None
    /\ depth' = 0

\* authorize is entered from who: the device-code request of lines 163-180 is sent
CallAuthorize(who, log1, rlog1) ==
    LET rlog2 == rlog1 \o <<Sent(DeviceCodeRequest, use_oauth2')>>
    IN  IF Reenters(DeviceCodeRequest, use_oauth2')
        THEN Fail(<<"RecursionError">>, log1, rlog2)
        ELSE /\ pc' = "device_code"
             /\ caller' = who
             /\ response_data' = None
             /\ log' = log1
             /\ result' = NoResult
             /\ request' = built'
             /\ rlog' = rlog2
             /\ UNCHANGED <<refresh_arg, depth>>

\* initialize_oauth, lines 97-105, for the record token_data it holds; t is
\* the clock read of line 99
expiry_check(token_data, t, log1, rlog1) ==
    LET log2 == log1 \o
            <<Event("screen", "Access token expired, refreshing", None, t)>>
        rlog2 == rlog1 \o <<Sent(RefreshRequest, use_oauth2')>>
    IN  IF IsExpired(token_data, t)
        THEN IF Reenters(RefreshRequest, use_oauth2')
             THEN Fail(<<"RecursionError">>, log2, rlog2)
             ELSE /\ pc' = "refresh"
                  /\ refresh_arg' = token_data["refresh_token"]
                  /\ log' = log2
                  /\ caller' = "none"
                  /\ response_data' = None
                  /\ result' = NoResult
                  /\ request' = built'
                  /\ rlog' = rlog2
                  /\ UNCHANGED depth
        ELSE Finish(token_data, log1, rlog1)

\* initialize_oauth, lines 86-96, called by the operation o; rlog1 is what
\* _create_request has done before the call.  A call starts when the record
\* of the last one has been dropped (Tick, Restart).
initialize_oauth(o, rlog1) ==
    LET token_data0 == get_token(TOKEN_DATA, cache)
        invalid == InvalidCached(token_data0)
        token_data == IF invalid THEN None ELSE token_data0
        log1 == IF invalid
                THEN <<Event("warn", "Invalid cached OAuth2 token data", None, now)>>
                ELSE <<>>
    IN  /\ pc = "idle"
        /\ op = "none"
        /\ op' = o
        /\ entry' = [cache |-> cache, TOKEN_DATA |-> TOKEN_DATA, now |-> now]
        /\ TOKEN_DATA' = token_data0
        /\ UNCHANGED <<cache, other, now, authenticated, vIn, vOut>>
        /\ IF Truthy(token_data)
           THEN expiry_check(token_data, now, log1, rlog1)
           ELSE CallAuthorize("initialize_oauth", log1, rlog1)

\* authorize has built the record token_data at the time t1 (the clock read
\* of line 221): back in its caller.  From initialize_oauth line 94: store
\* (95), then the expiry test (97-105), which reads the clock again, e later.
\* From refresh_token line 152: refresh_token returns it, initialize_oauth
\* stores it (103) and returns it (105) without looking at the clock.
authorize_returns(token_data, t1, e, log1) ==
    LET log2 == log1 \o <<Event("store", token_data, None, t1)>>
    IN  /\ store_token(token_data)
        /\ IF caller = "initialize_oauth"
           THEN /\ t1 + e <= MaxNow
                /\ now' = t1 + e
                /\ expiry_check(token_data, t1 + e, log2, rlog)
           ELSE /\ e = 0
                /\ now' = t1
                /\ Finish(token_data, log2, rlog)

(* ------------------------------- actions ------------------------------ *)
\* a direct call of initialize_oauth
Initialize ==
    /\ UNCHANGED use_oauth2
    /\ built' = NoRequest
    /\ initialize_oauth("initialize_oauth", <<>>)

\* _perform_login, lines 304-318
Login ==
    \E username \in Usernames :
        IF username = "oauth2"
        THEN /\ use_oauth2' = TRUE
             /\ built' = NoRequest
             /\ initialize_oauth("login", <<>>)
        ELSE /\ pc = "idle"
             /\ op = "none"
             /\ op' = "login_other"
             /\ log' = <<>>
             /\ result' = NoResult
             /\ entry' = NoEntry
             /\ built' = NoRequest
             /\ request' = NoRequest
             /\ rlog' = <<>>
             /\ UNCHANGED <<cache, TOKEN_DATA, use_oauth2, other, now, pc, caller,
                            refresh_arg, response_data, depth, authenticated,
                            vIn, vOut>>

\* _create_request, lines 320-326, on a request the extractor creates, and
\* handle_oauth, lines 107-130, when line 325 calls it
create_request(req) ==
    LET branch == create_request_branch(req, use_oauth2)
    IN  /\ pc = "idle"
        /\ op = "none"
        /\ UNCHANGED use_oauth2
        /\ built' = req
        /\ IF branch = "handle_oauth" /\ handle_applies(req.url)
           THEN initialize_oauth("create_request",
                                 <<RequestEvent("handle_oauth", req)>>)
           ELSE /\ op' = "create_request"
                /\ request' = IF branch = "marker"
                              THEN [req EXCEPT !.headers = Pop(req.headers, Marker)]
                              ELSE req
                /\ rlog' = IF branch = "handle_oauth"
                           THEN <<RequestEvent("handle_oauth", req)>>
                           ELSE <<>>
                /\ log' = <<>>
                /\ result' = NoResult
                /\ entry' = NoEntry
                /\ UNCHANGED <<cache, TOKEN_DATA, other, now, pc, caller,
                               refresh_arg, response_data, depth, authenticated,
                               vIn, vOut>>

\* an extractor creates a request
CreateRequest == \E req \in CommonRequests : create_request(req)

\* an extractor creates a request, to www.youtube.com or to
\* unrelated.example.com, with any combination of the headers
CreateAnyRequest ==
    \E req \in {r \in Requests : r.url \in {"https://www.youtube.com/watch",
                                             "https://unrelated.example.com/"}} :
        create_request(req)

\* authorize, lines 163-187: the device-code answer arrives, d after the
\* request was sent; the instructions (184-186) and the sleep notice (187) are
\* shown and time.sleep of line 188 is entered.  An answer lacking
\* verification_url or user_code ends the call at lines 181-182, one lacking
\* interval at line 187.
DeviceCode ==
    \E data \in DeviceCodeResponses(NumEvents("device_code") + 1), d \in Elapsed :
        LET t == now + d
            log1 == log \o <<Event("device_code", None, data, t)>>
            log2 == log1 \o <<Event("screen", Instructions(data), None, t)>>
        IN  /\ pc = "device_code"
            /\ t <= MaxNow
            /\ now' = t
            /\ UNCHANGED <<cache, TOKEN_DATA, use_oauth2, other, op, entry, built,
                           authenticated, vIn, vOut>>
            /\ IF ~HasKeys(data, {"verification_url", "user_code"})
               THEN Fail(<<"KeyError",
                           MissingKey(data, <<"verification_url", "user_code">>)>>,
                         log1, rlog)
               ELSE IF ~HasKeys(data, {"interval"})
               THEN Fail(<<"KeyError", "interval">>, log2, rlog)
               ELSE /\ t + sleep_time(data) <= MaxNow
                    /\ response_data' = data
                    /\ log' = log2 \o <<Event("screen", SleepingFor(data), None, t)>>
                    /\ pc' = "sleep"
                    /\ UNCHANGED <<caller, refresh_arg, depth, result, request, rlog>>

\* authorize, lines 188 and 208: time.sleep(interval) returns, and the poll of
\* lines 190-200 is sent; its device_code subscript (line 197) ends the call
\* when the session has none
Sleep ==
    LET log1 == log \o <<Event("sleep", sleep_time(response_data), None, now)>>
    IN  /\ pc = "sleep"
        /\ now + sleep_time(response_data) <= MaxNow
        /\ now' = now + sleep_time(response_data)
        /\ UNCHANGED <<cache, TOKEN_DATA, use_oauth2, other, op, entry, built,
                       authenticated, vIn, vOut>>
        /\ IF HasKeys(response_data, {"device_code"})
           THEN /\ pc' = "poll"
                /\ log' = log1
                /\ UNCHANGED <<caller, refresh_arg, response_data, depth, result,
                               request, rlog>>
           ELSE Fail(<<"KeyError", "device_code">>, log1, rlog)

\* authorize, lines 201-225: the answer to a poll arrives, d after the poll
\* was sent.  Every answer is followed by the blank lines of line 202 and the
\* answer itself, line 205, on the screen, whatever the answer is; a success
\* answer by "Authorization successful" (218) before its keys are read.
Poll ==
    \E token_response \in DeviceTokenResponses \cup IncompleteTokenResponses
                            \cup ErrorResponses,
       d \in Elapsed, e \in Elapsed :
        LET outcome == poll_outcome(token_response)
            t == now + d
            log1 == log \o <<Event("poll", response_data["device_code"],
                                   token_response, t),
                             Event("screen", "\n\n", None, t),
                             Event("screen", token_response, None, t)>>
            log2 == log1 \o <<Event("screen", "Authorization successful", None, t)>>
        IN  /\ pc = "poll"
            /\ t <= MaxNow
            /\ UNCHANGED <<use_oauth2, other, op, entry, built, authenticated,
                           vIn, vOut>>
            /\ CASE outcome = "sleep" ->
                      /\ e = 0
                      /\ Cardinality({i \in Events("poll") :
                            poll_outcome(log[i].resp) = "sleep"}) < MaxPending
                      /\ t + sleep_time(response_data) <= MaxNow
                      /\ now' = t
                      /\ log' = log1
                      /\ pc' = "sleep"
                      /\ UNCHANGED <<cache, TOKEN_DATA, caller, refresh_arg,
                                     response_data, depth, result, request, rlog>>
                 [] outcome = "restart" ->
                      /\ e = 0
                      /\ depth < MaxRestarts
                      /\ now' = t
                      /\ UNCHANGED <<cache, TOKEN_DATA>>
                      /\ LET log3 == log1 \o
                                <<Event("warn", "The device code has expired", None, t)>>
                             rlog2 == rlog \o <<Sent(DeviceCodeRequest, use_oauth2)>>
                         IN  IF Reenters(DeviceCodeRequest, use_oauth2)
                             THEN Fail(<<"RecursionError">>, log3, rlog2)
                             ELSE /\ depth' = depth + 1
                                  /\ pc' = "device_code"
                                  /\ response_data' = None
                                  /\ log' = log3
                                  /\ rlog' = rlog2
                                  /\ UNCHANGED <<caller, refresh_arg, result, request>>
                 [] outcome = "raise" ->
                      /\ e = 0
                      /\ now' = t
                      /\ Fail(<<"ExtractorError", traverse_obj(token_response, "error")>>,
                              log1, rlog)
                      /\ UNCHANGED <<cache, TOKEN_DATA>>
                 [] outcome = "return" ->
                      IF HasKeys(token_response, {"access_token", "expires_in",
                                                  "refresh_token", "token_type"})
                      THEN authorize_returns(authorize_record(token_response, t),
                                             t, e, log2)
                      ELSE /\ e = 0
                           /\ now' = t
                           /\ Fail(<<"KeyError",
                                     MissingKey(token_response,
                                                <<"access_token", "expires_in",
                                                  "refresh_token", "token_type">>)>>,
                                   log2, rlog)
                           /\ UNCHANGED <<cache, TOKEN_DATA>>

\* refresh_token, lines 132-160, and initialize_oauth, lines 103-105: the
\* answer to the refresh request arrives, d after the request was sent
Refresh ==
    \E token_response \in RefreshTokenResponses \cup IncompleteRefreshResponses
                            \cup RefreshErrorResponses,
       d \in Elapsed :
        LET t == now + d
            log1 == log \o <<Event("refresh", refresh_arg, token_response, t)>>
        IN  /\ pc = "refresh"
            /\ t <= MaxNow
            /\ now' = t
            /\ UNCHANGED <<use_oauth2, other, op, entry, built, authenticated,
                           vIn, vOut>>
            /\ IF refresh_failed(token_response)
               THEN /\ CallAuthorize("refresh_token",
                          log1 \o <<Event("warn", "Failed to refresh access token",
                                          None, t)>>,
                          rlog)
                    /\ UNCHANGED <<cache, TOKEN_DATA>>
               ELSE IF HasKeys(token_response, {"access_token", "expires_in", "token_type"})
               THEN LET token_data == refresh_record(token_response, refresh_arg, t)
                    IN  /\ store_token(token_data)
                        /\ Finish(token_data,
                                  log1 \o <<Event("store", token_data, None, t)>>,
                                  rlog)
               ELSE /\ Fail(<<"KeyError",
                              MissingKey(token_response,
                                         <<"access_token", "expires_in", "token_type">>)>>,
                            log1, rlog)
                    /\ UNCHANGED <<cache, TOKEN_DATA>>

\* the HTTP executor raises on the request the call waits for
TransportError ==
    /\ pc \in {"device_code", "poll", "refresh"}
    /\ UNCHANGED <<cache, TOKEN_DATA, use_oauth2, other, now, op, entry, built,
                   authenticated, vIn, vOut>>
    /\ Fail(<<"TransportError">>,
            log \o <<Event(pc,
                           CASE pc = "refresh" -> refresh_arg
                             [] pc = "poll" -> response_data["device_code"]
                             [] pc = "device_code" -> None,
                           None, now)>>,
            rlog)

\* get_token called on its own, lines 75-78: it returns _TOKEN_DATA as it
\* leaves it
GetToken ==
    /\ pc = "idle"
    /\ op = "none"
    /\ op' = "get_token"
    /\ TOKEN_DATA' = get_token(TOKEN_DATA, cache)
    /\ UNCHANGED <<cache, use_oauth2, other, now, pc, caller, refresh_arg,
                   response_data, depth, log, result, entry, built, request, rlog,
                   authenticated, vIn, vOut>>

\* what is_authenticated returns with _use_oauth2 set, line 332: the falsy
\* token_data itself, or else what validate_token_data says of it
is_authenticated(token_data) ==
    IF token_data = None THEN "None"
    ELSE IF DOMAIN token_data = {} THEN "{}"
    ELSE validate_token_data(token_data)

\* the property is_authenticated the host reads, lines 328-333; without
\* _use_oauth2 the answer is the host's own
IsAuthenticated ==
    /\ pc = "idle"
    /\ op = "none"
    /\ op' = "is_authenticated"
    /\ IF use_oauth2
       THEN /\ TOKEN_DATA' = get_token(TOKEN_DATA, cache)
            /\ authenticated' = is_authenticated(TOKEN_DATA')
       ELSE /\ UNCHANGED TOKEN_DATA
            /\ authenticated' \in {"True", "False"}
    /\ UNCHANGED <<cache, use_oauth2, other, now, pc, caller, refresh_arg,
                   response_data, depth, log, result, entry, built, request, rlog,
                   vIn, vOut>>

\* time passes between calls; the record of the last call is dropped
Tick ==
    \E d \in TickSteps :
        /\ pc = "idle"
        /\ now + d <= MaxNow
        /\ now' = now + d
        /\ log' = <<>>
        /\ result' = NoResult
        /\ entry' = NoEntry
        /\ built' = NoRequest
        /\ request' = NoRequest
        /\ rlog' = <<>>
        /\ authenticated' = ""
        /\ op' = "none"
        /\ UNCHANGED <<cache, TOKEN_DATA, use_oauth2, other, pc, caller, refresh_arg,
                       response_data, depth, vIn, vOut>>

\* the extractor whose methods are called next is the process's other one:
\* every YouTube extractor class gets a _YouTubeOAuth subclass (lines 293-298),
\* each instance has its own _TOKEN_DATA and _use_oauth2, and all of them
\* share the cache.  Calls do not overlap, the extractors run in one thread.
SwitchInstance ==
    /\ pc = "idle"
    /\ op = "none"
    /\ other # [TOKEN_DATA |-> TOKEN_DATA, use_oauth2 |-> use_oauth2]
    /\ TOKEN_DATA' = other.TOKEN_DATA
    /\ use_oauth2' = other.use_oauth2
    /\ other' = [TOKEN_DATA |-> TOKEN_DATA, use_oauth2 |-> use_oauth2]
    /\ UNCHANGED <<cache, now, pc, op, caller, refresh_arg, response_data, depth,
                   log, result, entry, built, request, rlog, authenticated,
                   vIn, vOut>>

\* the process ends and a new one starts: the instances are new, the cache stays
Restart ==
    /\ pc = "idle"
    /\ op # "none" \/ use_oauth2 \/ TOKEN_DATA # None \/ other # NewInstance
    /\ TOKEN_DATA' = None
    /\ use_oauth2' = FALSE
    /\ other' = NewInstance
    /\ op' = "none"
    /\ log' = <<>>
    /\ result' = NoResult
    /\ entry' = NoEntry
    /\ built' = NoRequest
    /\ request' = NoRequest
    /\ rlog' = <<>>
    /\ authenticated' = ""
    /\ UNCHANGED <<cache, now, pc, caller, refresh_arg, response_data, depth,
                   vIn, vOut>>

\* validate_token_data called on vIn, lines 80-84
Validate ==
    /\ vOut = ""
    /\ vOut' = validate_token_data(vIn)
    /\ UNCHANGED <<cache, TOKEN_DATA, use_oauth2, other, now, pc, op, caller,
                   refresh_arg, response_data, depth, log, result, entry, built,
                   request, rlog, authenticated, vIn>>

Next ==
    \/ Initialize
    \/ Login
    \/ CreateRequest
    \/ GetToken
    \/ IsAuthenticated
    \/ DeviceCode
    \/ Sleep
    \/ Poll
    \/ Refresh
    \/ TransportError
    \/ Tick
    \/ SwitchInstance
    \/ Restart

Spec == Init /\ [][Next]_vars

\* one initialize_oauth call under fair scheduling.  The call is blocking and
\* single threaded: every request it waits for is answered or fails (the HTTP
\* executor returns or raises), hence weak fairness of the steps of a running
\* call.  The server's part is the premise of the termination claim: it does
\* not answer expired_token or authorization_pending for ever, so a poll that
\* ends authorize (success or a fatal error code) is strongly fair.
NextInCall == DeviceCode \/ Sleep \/ Poll \/ Refresh \/ TransportError
PollEnds == Poll /\ pc' \notin {"sleep", "device_code"}

NextLive ==
    \/ Initialize
    \/ DeviceCode
    \/ Sleep
    \/ Poll
    \/ Refresh
    \/ TransportError

SpecLive ==
    Init /\ [][NextLive]_vars /\ WF_vars(NextInCall) /\ SF_vars(PollEnds)

\* validate_token_data alone, on None and on every dict over the required keys
\* and one more key
ValidateInputs ==
    {None} \cup
    {Restrict(full, S) :
        full \in {[access_token |-> a, expires |-> e, refresh_token |-> r,
                   token_type |-> "Bearer", scope |-> "youtube"] :
                    a \in {"a1", "a2"}, e \in {0, 90}, r \in {"r1", "r2"}},
        S \in SUBSET (RequiredKeys \cup {"scope"})}

InitValidate ==
    /\ vIn \in ValidateInputs
    /\ vOut = ""
    /\ authenticated = ""
    /\ cache = None
    /\ TOKEN_DATA = None
    /\ use_oauth2 = FALSE
    /\ other = NewInstance
    /\ now = 0
    /\ pc = "idle"
    /\ op = "none"
    /\ caller = "none"
    /\ refresh_arg = ""
    /\ response_data = None
    /\ depth = 0
    /\ log = <<>>
    /\ result = NoResult
    /\ entry = NoEntry
    /\ built = NoRequest
    /\ request = NoRequest
    /\ rlog = <<>>

NextValidate == Validate

SpecValidate == InitValidate /\ [][NextValidate]_vars

\* one extractor, logged in or not, creating requests with every combination
\* of the headers
NextRequests ==
    \/ Login
    \/ CreateAnyRequest
    \/ DeviceCode
    \/ Sleep
    \/ Poll
    \/ Refresh
    \/ TransportError
    \/ Tick

SpecRequests == Init /\ [][NextRequests]_vars

(* ------------------------------ properties ---------------------------- *)
\* a call of initialize_oauth is running, or has ended and nothing happened since
InCall == pc # "idle"
Ended == pc = "idle" /\ result.status # "none"
Called == InCall \/ Ended
ReturnedOk == Ended /\ result.status = "ok"

\* rec has all four required fields
HasAll(rec) == rec # None /\ RequiredKeys \subseteq DOMAIN rec

\* the record the call found: the in-memory copy, or the cache if that was empty
EntryHeld ==
    IF entry.TOKEN_DATA # None /\ DOMAIN entry.TOKEN_DATA # {}
    THEN entry.TOKEN_DATA
    ELSE entry.cache

Min(S) == CHOOSE x \in S : \A y \in S : x <= y
Max(S) == CHOOSE x \in S : \A y \in S : x >= y

\* the requests of the call: the positions of their events in log
RequestsMade ==
    {i \in 1..Len(log) : log[i].ev \in {"device_code", "poll", "refresh"}}

\* the call did nothing after its last request but show messages and, on the
\* answer to a device-code request, sleep: a request that failed is the last
\* event, an answered poll is followed by the two displays of lines 202 and
\* 205 and, a success answer, by that of line 218
EndedAtRequest ==
    /\ RequestsMade # {}
    /\ LET i == Max(RequestsMade)
       IN  /\ \A j \in (i + 1)..Len(log) : log[j].ev \in {"screen", "sleep"}
           /\ log[i].resp = None => Len(log) = i
           /\ (log[i].ev = "poll" /\ log[i].resp # None) =>
                 /\ Len(log) = i + (IF "error" \in DOMAIN log[i].resp THEN 2 ELSE 3)
                 /\ log[i + 2].arg = log[i].resp
           /\ log[i].ev = "refresh" => Len(log) = i
           /\ log[i].ev = "device_code" => Len(log) <= i + 3

\* C1: a complete record, held in memory or (memory empty) in the cache, whose
\* expires is at least 60 s after now, is returned as it is: no device-code
\* request, no poll, no refresh request, no cache write.
C1_CachedCurrentReturned ==
    (Called /\ HasAll(EntryHeld) /\ EntryHeld["expires"] >= entry.now + 60) =>
        /\ pc = "idle"
        /\ result = Returned(EntryHeld)
        /\ NumEvents("device_code") = 0
        /\ NumEvents("poll") = 0
        /\ NumEvents("refresh") = 0
        /\ NumEvents("store") = 0
        /\ cache = entry.cache

\* a fresh process found in the cache a complete record expiring exactly 60 s
\* after now, and initialize_oauth returned
C1_Witness ==
    /\ ReturnedOk
    /\ entry.TOKEN_DATA = None
    /\ HasAll(entry.cache)
    /\ entry.cache["expires"] = entry.now + 60

\* the record the expiry test of the call is applied to, with the time of the
\* test: the record found, or else the one the device flow has just delivered
C2_HasChecked == HasAll(EntryHeld) \/ Events("store") # {}
C2_Checked ==
    IF HasAll(EntryHeld)
    THEN [rec |-> EntryHeld, at |-> entry.now]
    ELSE LET s == Min(Events("store"))
         IN  [rec |-> log[s].arg,
              at |-> IF Len(log) > s THEN log[s + 1].at ELSE now]

\* C2: a complete record (cached or just acquired) with expires < now + 60,
\* now being the clock read of line 99 (for a record just acquired, later than
\* the read of line 221 that dated it),
\* makes one call invoke the refresher exactly once, with the record's
\* refresh_token, and the call persists what the refresher returned; with
\* expires >= now + 60 the refresher is not invoked.
C2_RefreshExactlyOnce ==
    Called =>
        /\ NumEvents("refresh") + (IF pc = "refresh" THEN 1 ELSE 0) <= 1
        /\ ~C2_HasChecked => (pc # "refresh" /\ NumEvents("refresh") = 0)
        /\ C2_HasChecked =>
             IF C2_Checked.rec["expires"] < C2_Checked.at + 60
             THEN /\ NumEvents("refresh") + (IF pc = "refresh" THEN 1 ELSE 0) = 1
                  /\ pc = "refresh" => refresh_arg = C2_Checked.rec["refresh_token"]
                  /\ \A i \in Events("refresh") :
                        /\ log[i].arg = C2_Checked.rec["refresh_token"]
                        /\ (ReturnedOk /\ "access_token" \in DOMAIN log[i].resp) =>
                              result.value["access_token"] = log[i].resp["access_token"]
                  /\ ReturnedOk =>
                        /\ cache = result.value
                        /\ TOKEN_DATA = result.value
                        /\ log[Len(log)].ev = "store"
                        /\ log[Len(log)].arg = result.value
             ELSE pc # "refresh" /\ NumEvents("refresh") = 0

\* the device flow delivered a record with expires_in = 60, the clock read of
\* line 99 was later than the one that dated the record, so the record was
\* within the margin: it was refreshed, and the call returned
C2_Witness ==
    /\ ReturnedOk
    /\ ~HasAll(EntryHeld)
    /\ NumEvents("poll") >= 1
    /\ NumEvents("refresh") = 1
    /\ "access_token" \in DOMAIN log[Max(Events("refresh"))].resp
    /\ LET s == Min(Events("store"))
       IN  /\ log[s].arg["expires"] = log[s].at + 60
           /\ log[s + 1].at > log[s].at

\* every token the server issued in this call has expires_in >= 60
C3_ServerIssuesLongTokens ==
    \A i \in 1..Len(log) :
        "expires_in" \in DOMAIN log[i].resp => log[i].resp["expires_in"] >= 60

\* C3: whenever initialize_oauth returns, the record has all four fields and
\* expires >= now + 60, now being the clock as the call last read it, provided
\* the server issued only expires_in >= 60.
C3_ReturnedRecordCurrent ==
    (ReturnedOk /\ C3_ServerIssuesLongTokens) =>
        /\ HasAll(result.value)
        /\ result.value["expires"] >= now + 60

\* an expired cached record, a refresh that failed, a device flow that was
\* restarted once, and a return
C3_Witness ==
    /\ ReturnedOk
    /\ C3_ServerIssuesLongTokens
    /\ HasAll(EntryHeld)
    /\ NumEvents("refresh") = 1
    /\ NumEvents("device_code") = 2

\* C4: with no record in the cache, or one lacking a required field, the call
\* does not fail on the record: it runs the device flow, stores the flow's
\* record in the cache and in memory, and that record has
\* expires = (time of the successful poll) + expires_in.
C4_AbsentOrInvalidCacheAuthorizes ==
    (Called /\ ~HasAll(entry.cache)) =>
        /\ pc = "device_code" \/ NumEvents("device_code") >= 1
        /\ result.status = "raised" =>
              /\ EndedAtRequest
              /\ result.error[1] \in {"ExtractorError", "TransportError", "KeyError"}
        /\ Events("store") # {} =>
              LET i == Min(Events("store"))
                  r == log[i].arg
              IN  /\ i > 4
                  /\ log[i - 4].ev = "poll"
                  /\ HasAll(r)
                  /\ r["expires"] = log[i - 4].at + log[i - 4].resp["expires_in"]
                  /\ (NumEvents("store") = 1 /\ NumEvents("refresh") = 0) =>
                        (cache = r /\ TOKEN_DATA = r)
                  /\ (ReturnedOk /\ NumEvents("refresh") = 0) => result.value = r

\* the cache held a record lacking one field; the device flow ran after a wait
\* and the call returned its record
C4_Witness ==
    /\ ReturnedOk
    /\ entry.cache # None
    /\ Cardinality(RequiredKeys \ DOMAIN entry.cache) = 1
    /\ NumEvents("store") = 1
    /\ NumEvents("refresh") = 0
    /\ now > entry.now

\* C5 (as claimed): validate returns true iff all four keys are present, and
\* false, without failing, for a record lacking a key, an empty record and None.
C5_ValidateNeverFails ==
    vOut # "" => vOut = (IF HasAll(vIn) THEN "True" ELSE "False")

\* the polls of the call were answered authorization_pending, authorization_pending,
\* success, in one device-code session
C6_PendingTwiceThenSuccess ==
    /\ NumEvents("device_code") = 1
    /\ NumEvents("poll") = 3
    /\ HasKeys(log[Max(Events("poll"))].resp,
               {"access_token", "expires_in", "refresh_token", "token_type"})
    /\ \A i \in Events("poll") \ {Max(Events("poll"))} :
          log[i].resp = [error |-> "authorization_pending"]

\* the sleeps of the call are all of the session's interval, and authorize
\* returned the record of the success answer
C6_SleepsAndRecord ==
    LET p == Max(Events("poll"))
        interval == log[Min(Events("device_code"))].resp["interval"]
    IN  /\ \A i \in Events("sleep") : log[i].arg = interval
        /\ log[p + 4].ev = "store"
        /\ log[p + 4].arg = TokenRecord(log[p].resp["access_token"],
                                        log[p].at + log[p].resp["expires_in"],
                                        log[p].resp["refresh_token"],
                                        log[p].resp["token_type"])

\* C6 (as claimed): pending twice then success: authorize sleeps exactly twice,
\* each time for interval seconds, and returns the success record.
C6_SleepsExactlyTwice ==
    C6_PendingTwiceThenSuccess => (NumEvents("sleep") = 2 /\ C6_SleepsAndRecord)

\* C6 (amended): pending twice then success: authorize sleeps exactly three
\* times, once before the first poll and once after each authorization_pending,
\* each time for interval seconds, and returns the success record.
C6_SleepsThreeTimes ==
    C6_PendingTwiceThenSuccess =>
        /\ NumEvents("sleep") = 3
        /\ C6_SleepsAndRecord
        /\ \E d \in Events("device_code") : log[d + 3].ev = "sleep" /\ log[d + 4].ev = "poll"
        /\ \A i \in Events("poll") \ {Max(Events("poll"))} : log[i + 3].ev = "sleep"

\* the scenario happened, and the call returned
C6_Witness ==
    /\ C6_PendingTwiceThenSuccess
    /\ ReturnedOk
    /\ log[Min(Events("device_code"))].resp["interval"] = 30

\* the answered device-code requests, and the polls answered expired_token
C7_Sessions ==
    {j \in Events("device_code") :
        log[j].resp # None /\ "interval" \in DOMAIN log[j].resp}
C7_ExpiredPolls == {i \in Events("poll") : log[i].resp = [error |-> "expired_token"]}
\* the session the event at position p falls in
C7_SessionOf(p) == Max({j \in C7_Sessions : j < p})

\* C7: an expired_token answer abandons the session: the device-code request is
\* made once more per expired_token, later polls and sleeps use the new
\* device_code and interval, and the record returned is built from a poll of
\* the last session.
C7_RestartOnExpiredToken ==
    /\ \A i \in C7_ExpiredPolls :
          /\ Len(log) >= i + 3
          /\ log[i + 3].ev = "warn"
          /\ IF Len(log) >= i + 4
             THEN log[i + 4].ev = "device_code"
             ELSE pc = "device_code"
    /\ Cardinality({j \in Events("device_code") : j > 4 /\ log[j - 1].ev = "warn"
                        /\ j - 4 \in C7_ExpiredPolls})
          + (IF pc = "device_code" /\ Len(log) - 3 \in C7_ExpiredPolls THEN 1 ELSE 0)
       = Cardinality(C7_ExpiredPolls)
    /\ \A j \in C7_Sessions, k \in C7_Sessions :
          (j # k /\ "device_code" \in DOMAIN log[j].resp
                 /\ "device_code" \in DOMAIN log[k].resp) =>
                log[j].resp["device_code"] # log[k].resp["device_code"]
    /\ \A p \in Events("poll") :
          log[p].arg = log[C7_SessionOf(p)].resp["device_code"]
    /\ \A s \in Events("sleep") :
          log[s].arg = log[C7_SessionOf(s)].resp["interval"]
    /\ pc \in {"sleep", "poll"} => response_data = log[Max(C7_Sessions)].resp
    /\ (ReturnedOk /\ C7_ExpiredPolls # {}) =>
          LET p == Max(Events("poll"))
          IN  /\ p > Max(C7_ExpiredPolls)
              /\ C7_SessionOf(p) = Max(C7_Sessions)
              /\ NumEvents("refresh") = 0 \/ Max(Events("refresh")) < p =>
                    result.value = TokenRecord(log[p].resp["access_token"],
                                               log[p].at + log[p].resp["expires_in"],
                                               log[p].resp["refresh_token"],
                                               log[p].resp["token_type"])

\* the first poll was answered expired_token, the restarted session has another
\* interval, and the call returned
C7_Witness ==
    /\ ReturnedOk
    /\ C7_ExpiredPolls # {}
    /\ Min(Events("poll")) \in C7_ExpiredPolls
    /\ Cardinality(C7_Sessions) = 2
    /\ log[Min(C7_Sessions)].resp["interval"] # log[Max(C7_Sessions)].resp["interval"]

\* C8: a poll answered with an error code other than authorization_pending and
\* expired_token ends the polling at once: the call (also a login) fails with
\* an error carrying the raw code, without retry or restart.
C8_FatalErrorPropagates ==
    \A i \in Events("poll") :
        ("error" \in DOMAIN log[i].resp
            /\ log[i].resp["error"] \notin {"authorization_pending", "expired_token"}) =>
                /\ i = Max(RequestsMade)
                /\ EndedAtRequest
                /\ Len(log) = i + 2
                /\ pc = "idle"
                /\ result = Raised(<<"ExtractorError", log[i].resp["error"]>>)

\* a login with username oauth2 failed on access_denied after a pending poll
C8_Witness ==
    /\ op = "login"
    /\ use_oauth2
    /\ pc = "idle"
    /\ result = Raised(<<"ExtractorError", "access_denied">>)
    /\ NumEvents("poll") >= 2

\* C9: a refresh answer with an error field does not fail the refresh: the
\* device flow runs, the refresher returns the flow's record, and
\* initialize_oauth stores and returns it.
C9_RefreshErrorReauthorizes ==
    \A i \in Events("refresh") :
        "error" \in DOMAIN log[i].resp =>
            /\ pc = "device_code" \/ \E j \in Events("device_code") : j > i
            /\ result.status = "raised" =>
                  /\ Max(RequestsMade) > i
                  /\ log[Max(RequestsMade)].ev \in {"device_code", "poll"}
                  /\ EndedAtRequest
            /\ ReturnedOk =>
                  LET p == Max(Events("poll"))
                  IN  /\ p > i
                      /\ result.value = TokenRecord(log[p].resp["access_token"],
                                                    log[p].at + log[p].resp["expires_in"],
                                                    log[p].resp["refresh_token"],
                                                    log[p].resp["token_type"])
                      /\ cache = result.value
                      /\ TOKEN_DATA = result.value
                      /\ NumEvents("refresh") = 1

\* the refresh of a cached record was answered invalid_grant, the device flow
\* ran and the call returned
C9_Witness ==
    /\ ReturnedOk
    /\ HasAll(EntryHeld)
    /\ \E i \in Events("refresh") : log[i].resp = [error |-> "invalid_grant"]

\* C10: a successful refresh keeps the refresh_token it was called with (that
\* of the record the calling extractor holds) unless the answer carries one; access_token, token_type
\* and expires come from the answer.  Holding at every refresh, it holds over
\* any number of successive ones.
C10_RefreshTokenRetained ==
    [][(pc = "refresh" /\ pc' = "idle" /\ result'.status = "ok") =>
        LET resp == log'[Len(log') - 1].resp
        IN  /\ refresh_arg = TOKEN_DATA["refresh_token"]
            /\ cache' = TokenRecord(resp["access_token"],
                                    now' + resp["expires_in"],
                                    IF "refresh_token" \in DOMAIN resp
                                    THEN resp["refresh_token"]
                                    ELSE TOKEN_DATA["refresh_token"],
                                    resp["token_type"])
            /\ TOKEN_DATA' = cache'
            /\ result'.value = cache']_vars

\* a record the program itself stored earlier was refreshed by an answer without
\* refresh_token: new access_token, same refresh_token
C10_Witness ==
    /\ ReturnedOk
    /\ entry.now > 0
    /\ HasAll(entry.cache)
    /\ NumEvents("refresh") = 1
    /\ log[Len(log)].ev = "store"
    /\ log[Len(log) - 1].ev = "refresh"
    /\ DOMAIN log[Len(log) - 1].resp = {"access_token", "expires_in", "token_type"}
    /\ result.value["refresh_token"] = entry.cache["refresh_token"]
    /\ entry.cache["refresh_token"] = "r2"
    /\ result.value["access_token"] # entry.cache["access_token"]

(* ------------------- properties of _create_request -------------------- *)
\* the last operation was _create_request on the request built
Created == op = "create_request"

\* the positions in rlog of the events named ev
RequestEvents(ev) == {i \in 1..Len(rlog) : rlog[i].ev = ev}

\* handle_oauth was called for the request built
HandleCalled == Created /\ rlog # <<>> /\ rlog[1].ev = "handle_oauth"

\* handle_oauth went past its host guard and called initialize_oauth
Acted == Created /\ Called

\* URLs whose host is youtube.com or a host under it
OnProtectedDomain(url) ==
    url \in {"https://www.youtube.com/watch", "https://www.youtube.com:443/watch"}

\* C11: handle_oauth acts only on a request whose host is youtube.com or a host
\* under it; for any other host it is a no-op: headers unchanged,
\* initialize_oauth not called, no request sent, no cache access.
C11_OffDomainNoOp ==
    (Created /\ ~OnProtectedDomain(built.url)) =>
        /\ ~Called
        /\ request = built
        /\ log = <<>>
        /\ RequestEvents("request") = {}
        /\ RequestEvents("warn") = {}

\* C12: when handle_oauth has gone past its host guard and completed, whatever
\* headers the request carried: X-Goog-PageId, X-Goog-AuthUser and
\* X-Youtube-Identity-Token are absent, and Authorization is
\* "{token_type} {access_token}" of the record initialize_oauth returned in
\* that call, replacing any earlier value; nothing else of the request changed.
C12_HeadersAfterHandle ==
    (Acted /\ ReturnedOk) =>
        /\ DOMAIN request.headers \cap
             {"X-Goog-PageId", "X-Goog-AuthUser", "X-Youtube-Identity-Token"} = {}
        /\ "Authorization" \in DOMAIN request.headers
        /\ request.headers["Authorization"] =
             <<result.value["token_type"], " ", result.value["access_token"]>>
        /\ request.headers["Authorization"] # HeaderValue("Authorization")
        /\ request.headers["User-Agent"] = built.headers["User-Agent"]
        /\ request.url = built.url

\* a request to www.youtube.com carrying all five headers was handled in a call
\* that refreshed the token: Authorization is the refreshed token's
C12_Witness ==
    /\ Acted
    /\ ReturnedOk
    /\ built.url = "https://www.youtube.com/watch"
    /\ HeaderNames \subseteq DOMAIN built.headers
    /\ NumEvents("refresh") = 1
    /\ result.value["access_token"] = "a3"
    /\ entry.TOKEN_DATA # None
    /\ entry.TOKEN_DATA["access_token"] = "a2"
    /\ request.headers["Authorization"] = <<"Bearer", " ", "a3">>

\* the extractors of the process whose _use_oauth2 is set
FlagsSet ==
    (IF use_oauth2 THEN 1 ELSE 0) + (IF other.use_oauth2 THEN 1 ELSE 0)

\* C13: an extractor's _use_oauth2 becomes set only in its _perform_login with
\* username "oauth2".  While it is unset, whatever the flag of another
\* extractor is, _create_request calls neither handle_oauth nor
\* initialize_oauth, leaves the cache and the in-memory copy alone and returns
\* the request as the host built it.  _perform_login with another username
\* leaves the flag as it is and does no token operation.
C13_FlagGatesInterceptor ==
    [][ /\ FlagsSet' > FlagsSet =>
              (op = "none" /\ op' = "login" /\ ~use_oauth2 /\ use_oauth2'
                  /\ other' = other)
        /\ (pc = "idle" /\ op = "none" /\ op' = "create_request" /\ ~use_oauth2) =>
              /\ request' = built'
              /\ rlog' = <<>>
              /\ log' = <<>>
              /\ pc' = "idle"
              /\ result' = NoResult
              /\ UNCHANGED <<cache, TOKEN_DATA, use_oauth2, other>>
        /\ (pc = "idle" /\ op = "none" /\ op' = "login_other") =>
              /\ log' = <<>>
              /\ rlog' = <<>>
              /\ pc' = "idle"
              /\ result' = NoResult
              /\ UNCHANGED <<cache, TOKEN_DATA, use_oauth2, other>>
      ]_vars

\* with the flag unset and a complete record in the cache, a request to
\* www.youtube.com carrying Authorization and the identity headers was created
\* and came back as built
C13_Witness ==
    /\ Created
    /\ ~use_oauth2
    /\ HasAll(cache)
    /\ built.url = "https://www.youtube.com/watch"
    /\ HeaderNames \subseteq DOMAIN built.headers
    /\ request = built
    /\ rlog = <<>>
    /\ ~Called

(* ----------------------- properties of authorize ---------------------- *)
\* authorize is running: it waits for the device-code answer or for a poll answer
InAuthorize == pc \in {"device_code", "sleep", "poll"}

\* the polls answered authorization_pending
PendingPolls ==
    {i \in Events("poll") : log[i].resp = [error |-> "authorization_pending"]}

\* after an authorization_pending answer authorize sleeps and polls again: it
\* is sleeping or waiting for the answer, or the next request it made was a poll
C14_PendingKeepsPolling ==
    /\ \A i \in PendingPolls :
          IF Len(log) = i + 2
          THEN pc = "sleep" /\ result = NoResult
          ELSE /\ log[i + 3].ev = "sleep"
               /\ IF Len(log) >= i + 4
                  THEN log[i + 4].ev = "poll"
                  ELSE pc = "poll" /\ result = NoResult
    /\ result.error # <<"ExtractorError", "authorization_pending">>

\* C14: authorize has no cap on polls and no timeout of its own: every
\* authorization_pending answer is followed by a sleep and another poll, never
\* by an error; and if the server eventually answers a poll with success or a
\* fatal error code, authorize eventually terminates.
C14_PollsUntilAnswered ==
    /\ []C14_PendingKeepsPolling
    /\ InAuthorize ~> ~InAuthorize

\* authorize was answered authorization_pending MaxPending times, polled again
\* and returned the record of the success answer
C14_Witness ==
    /\ ReturnedOk
    /\ Cardinality(PendingPolls) = MaxPending
    /\ NumEvents("poll") = MaxPending + 1
    /\ log[Len(log)].ev = "store"

\* the device-code answer of the session the poll at position p belongs to
C15_SessionData(p) ==
    log[Max({d \in Events("device_code") : d < p})].resp

\* C15: every poll is immediately preceded by exactly one sleep of the interval
\* of its device-code session: the sleep follows either the display of the
\* instructions and of the sleep notice (first poll of a session) or an
\* authorization_pending poll and the display of its answer, and
\* the clock has advanced by at least the interval when the poll is answered;
\* so no two polls without a sleep between them, also across a restart after
\* expired_token.
C15_SleepBeforeEveryPoll ==
    \A p \in Events("poll") :
        /\ p > 4
        /\ log[p - 1].ev = "sleep"
        /\ log[p - 1].arg = C15_SessionData(p)["interval"]
        /\ log[p].at >= log[p - 1].at + C15_SessionData(p)["interval"]
        /\ log[p - 2].ev = "screen"
        /\ log[p - 3].ev = "screen"
        /\ \/ /\ log[p - 4].ev = "device_code"
              /\ log[p - 4].resp = C15_SessionData(p)
              /\ log[p - 3].arg = Instructions(C15_SessionData(p))
              /\ log[p - 2].arg = SleepingFor(C15_SessionData(p))
           \/ /\ log[p - 4].ev = "poll"
              /\ p - 4 \in PendingPolls
              /\ log[p - 2].arg = log[p - 4].resp
        /\ \A q \in Events("poll") : q < p => \E i \in Events("sleep") : q < i /\ i < p

\* a session with interval 30 ended with expired_token, the restarted session
\* had interval 60, and its first poll succeeded
C15_Witness ==
    /\ ReturnedOk
    /\ NumEvents("device_code") = 2
    /\ NumEvents("poll") = 2
    /\ log[Min(Events("device_code"))].resp["interval"] = 30
    /\ log[Max(Events("device_code"))].resp["interval"] = 60
    /\ log[Min(Events("poll"))].resp = [error |-> "expired_token"]
    /\ log[Max(Events("poll")) - 1].arg = 60

(* ------------------------ properties of the store --------------------- *)
\* the step wrote the cache: the new entry is complete, it is also the
\* in-memory copy, and it is the record built from the success answer of a
\* device-code poll or of a refresh in this step
C16_CacheWrite ==
    cache' # cache =>
        /\ HasAll(cache')
        /\ TOKEN_DATA' = cache'
        /\ \E i \in (Len(log) + 1)..Len(log') :
              /\ log'[i].ev = "store"
              /\ log'[i].arg = cache'
              /\ \/ /\ log'[i - 1].ev = "refresh"
                    /\ cache' = refresh_record(log'[i - 1].resp, log'[i - 1].arg,
                                                log'[i - 1].at)
                 \/ /\ log'[i - 4].ev = "poll"
                    /\ cache' = authorize_record(log'[i - 4].resp, log'[i - 4].at)

\* the step is a call on the same extractor: no other extractor takes over
\* and the process does not end
SameInstance == other' = other

\* C16 (as claimed): every write to the cache and to the in-memory copy puts a
\* complete record produced by the device flow or the refresher there.
C16_EveryWriteComplete ==
    [][ /\ C16_CacheWrite
        /\ (SameInstance /\ TOKEN_DATA' # TOKEN_DATA /\ TOKEN_DATA' # None) =>
              HasAll(TOKEN_DATA')
      ]_vars

\* C16 (amended): every write to the cache is a wholesale replacement by a
\* complete record produced by the device flow or the refresher, so the cache
\* entry is always its initial value or a complete record; the in-memory copy
\* is written either by such a store or by get_token, which copies the cache
\* entry as it is, complete or not (a new process starts with it unset).  The
\* in-memory copy of an extractor whose method is not running is not written.
C16_WholesaleWrites ==
    [][ /\ C16_CacheWrite
        /\ (SameInstance /\ TOKEN_DATA' # TOKEN_DATA) =>
              \/ /\ TOKEN_DATA' = cache'
                 /\ HasAll(cache')
                 /\ \E i \in (Len(log) + 1)..Len(log') :
                       log'[i].ev = "store" /\ log'[i].arg = cache'
              \/ TOKEN_DATA' = cache /\ ~Truthy(TOKEN_DATA) /\ op' # "none"
              \/ TOKEN_DATA' = None /\ op' = "none" /\ ~use_oauth2'
        /\ ~SameInstance =>
              \/ /\ other'.TOKEN_DATA = TOKEN_DATA
                 /\ TOKEN_DATA' = other.TOKEN_DATA
              \/ /\ other' = NewInstance
                 /\ TOKEN_DATA' = None
      ]_vars

\* get_token has copied an incomplete cache entry into the in-memory copy, and
\* the device flow that will replace both is running
C16_Witness ==
    /\ pc = "poll"
    /\ entry.TOKEN_DATA = None
    /\ Truthy(entry.cache)
    /\ ~HasAll(entry.cache)
    /\ TOKEN_DATA = entry.cache
    /\ cache = entry.cache

(* ------------------- properties of handle_oauth ----------------------- *)
\* C17: when handle_oauth has gone past its host guard and completed, the
\* conflicting-authorization warning was issued (once) and X-Origin removed if
\* and only if the request carried Authorization when handle_oauth was called;
\* a request without Authorization gets no warning and keeps X-Origin as it was.
\* No other _create_request call issues the warning.
C17_WarnIffAuthorization ==
    /\ (Acted /\ ReturnedOk) =>
          IF "Authorization" \in DOMAIN built.headers
          THEN /\ Cardinality(RequestEvents("warn")) = 1
               /\ "X-Origin" \notin DOMAIN request.headers
          ELSE /\ RequestEvents("warn") = {}
               /\ "X-Origin" \in DOMAIN request.headers
                     <=> "X-Origin" \in DOMAIN built.headers
               /\ "X-Origin" \in DOMAIN built.headers =>
                     request.headers["X-Origin"] = built.headers["X-Origin"]
    /\ RequestEvents("warn") # {} => (Acted /\ ReturnedOk)

\* a request to www.youtube.com carrying Authorization and X-Origin was
\* handled: the warning was issued and X-Origin is gone
C17_Witness ==
    /\ Acted
    /\ ReturnedOk
    /\ built.url = "https://www.youtube.com/watch"
    /\ DOMAIN built.headers = {"User-Agent", "Authorization", "X-Origin"}
    /\ Cardinality(RequestEvents("warn")) = 1
    /\ DOMAIN request.headers = {"User-Agent", "Authorization"}

\* the requests the running (or last) call sent through _download_json: one per
\* device-code session and one per refresh
LifecycleRequests ==
    NumEvents("device_code") + NumEvents("refresh")
        + (IF pc \in {"device_code", "refresh"} THEN 1 ELSE 0)

\* C18: the requests of the token lifecycle never make handle_oauth act:
\* initialize_oauth is never entered again while it is running, also when
\* _use_oauth2 is already set (login).  The refresh request carries the marker:
\* _create_request only removes the marker and handle_oauth is not called.  The
\* device-code request carries no marker: with _use_oauth2 set handle_oauth is
\* called and returns at its host guard.  Polls do not pass _create_request.
\* None of these requests is sent with an Authorization header or the marker.
C18_NoReentry ==
    /\ result.error # <<"RecursionError">>
    /\ Cardinality(RequestEvents("handle_oauth")) <= 1
    /\ Called => Cardinality(RequestEvents("request")) = LifecycleRequests
    /\ \A i \in RequestEvents("request") :
          /\ "Authorization" \notin DOMAIN rlog[i].headers
          /\ Marker \notin DOMAIN rlog[i].headers
          /\ rlog[i].url = RefreshRequest.url =>
                /\ rlog[i].branch = "marker"
                /\ rlog[i].headers = Pop(RefreshRequest.headers, Marker)
          /\ rlog[i].url = DeviceCodeRequest.url =>
                /\ rlog[i].branch = (IF use_oauth2 THEN "handle_oauth" ELSE "pass")
                /\ ~handle_applies(rlog[i].url)
                /\ rlog[i].headers = DeviceCodeRequest.headers

\* a login with _use_oauth2 set ran the device flow and then a refresh, sending
\* a device-code request and a refresh request, and returned
C18_Witness ==
    /\ op = "login"
    /\ use_oauth2
    /\ ReturnedOk
    /\ NumEvents("device_code") = 1
    /\ NumEvents("refresh") = 1
    /\ Len(rlog) = 2
    /\ rlog[1].url = DeviceCodeRequest.url
    /\ rlog[2].url = RefreshRequest.url
    /\ rlog[2].branch = "marker"

\* C19: a record is stored only after the authorize / refresh_token call that
\* produced it returned.  When a call fails (fatal error code or transport
\* failure) the failed request is the last thing it did: no store follows, any
\* store of the same initialize_oauth call belongs to an authorize call that
\* had returned before the failing refresh started, and the cache and the
\* in-memory copy are what they were when the failing call started.  When
\* initialize_oauth fails inside handle_oauth the request is exactly as built
\* and no warning was issued.
C19_FailureStoresNothing ==
    result.status = "raised" =>
        /\ EndedAtRequest
        /\ IF Events("store") = {}
           THEN cache = entry.cache
           ELSE LET s == Max(Events("store"))
                IN  /\ cache = log[s].arg
                    /\ TOKEN_DATA = log[s].arg
                    /\ log[s + 1].ev = "screen"
                    /\ log[s + 1].arg = "Access token expired, refreshing"
                    /\ log[s + 1].at >= log[s].at
                    /\ NumEvents("store") = 1
        /\ Created => (request = built /\ RequestEvents("warn") = {})

\* a request to www.youtube.com carrying all five headers was handled, the
\* refresh was answered with an error, the device flow ended with access_denied:
\* cache and request are as they were
C19_Witness ==
    /\ Acted
    /\ result = Raised(<<"ExtractorError", "access_denied">>)
    /\ built.url = "https://www.youtube.com/watch"
    /\ HeaderNames \subseteq DOMAIN built.headers
    /\ request = built
    /\ NumEvents("refresh") = 1
    /\ HasAll(entry.cache)
    /\ cache = entry.cache

(* ---------------------- properties across calls ----------------------- *)
\* the call started the device flow
FlowStarted == InAuthorize \/ Events("device_code") # {}

\* C20: once a device authorization has succeeded and its record is stored
\* (the cache entry a call finds is complete), then across later
\* initialize_oauth calls, handled requests, clock advances and process
\* restarts, the device flow is started again only in a call in which a
\* refresh answer contained an error; expiry alone never starts it.
C20_NoReauthorizationWithoutRefreshError ==
    (Called /\ HasAll(entry.cache) /\ FlowStarted) =>
        \E i \in Events("refresh") :
            /\ "error" \in DOMAIN log[i].resp
            /\ \A d \in Events("device_code") : i < d

====
